---- MODULE Spec2Model ----
(***************************************************************************)
(* chip.plugin.c: a netdata plugin that polls the AXP209 power controller  *)
(* over I2C, decodes its registers and prints CHART/DIMENSION definitions  *)
(* once and BEGIN/SET/END frames once per update interval.                 *)
(*                                                                         *)
(* Conventions of the model                                                *)
(*  - uint64_t values are 4 limbs of 16 bits, least significant first, so  *)
(*    that unsigned wrap-around is exact (LP64: long is 64 bits).          *)
(*  - a value_t cell is [as, milli]: the union member last written and the *)
(*    value written, in thousandths; reading another member reinterprets   *)
(*    the bytes (little-endian, IEEE-754 single).                          *)
(*  - a rendered string is [fmt, n]: the printf format used and the number *)
(*    printed, scaled by 10^precision; [fmt |-> "", n |-> 0] is "".        *)
(***************************************************************************)
EXTENDS Integers, Sequences, FiniteSets

\* ------------------------------------------------------------------ bounds

\* Steady cycles the model runs before it stops taking new ones.
MaxCycles == 3

\* ------------------------------------------------------- program constants

MaxDimensions == 13
UsecPerSec == 1000000
AdcSettleUs == 40000
MinUpdateEvery == 1
MaxUpdateEvery == 360

\* ---------------------------------------------------------------- state

VARIABLES
    pc,             \* where main is
    exitCode,       \* the exit status once pc = "exited", -1 before
    cmdline,        \* argc and atoi(argv[1])
    gUpdateEvery,
    gI2c,           \* the descriptor open returned, -1 on failure
    regfile,        \* the registers of the AXP209
    buswrites,      \* the register writes the device accepted, oldest first
    wait,           \* enable_adc's flag: a register was written
    waited,         \* enable_adc slept its 40 ms
    gData, gIsValid,
    power_status, charge_ctl,
    out,            \* the lines written to standard output, oldest first
    now,            \* CLOCK_MONOTONIC, microseconds
    starttimeus, endtimeus, delta,
    prevendtimeus,  \* history: the value endtimeus had before its last update
    sleepus,        \* the argument of the last end-of-cycle usleep
    cycles          \* Steady iterations completed (their usleep returned)

vars == << pc, exitCode, cmdline, gUpdateEvery, gI2c, regfile, buswrites, wait, waited,
           gData, gIsValid, power_status, charge_ctl, out, now,
           starttimeus, endtimeus, delta, prevendtimeus, sleepus, cycles >>

store == [data |-> gData, valid |-> gIsValid]

\* ------------------------------------------------------------- bit helpers

RECURSIVE BitAnd(_, _)
\* C's a & b on non-negative integers.
BitAnd(a, b) ==
    IF a = 0 \/ b = 0 THEN 0
    ELSE ((a % 2) * (b % 2)) + 2 * BitAnd(a \div 2, b \div 2)

RECURSIVE BitOr(_, _)
\* C's a | b on non-negative integers.
BitOr(a, b) ==
    IF a = 0 THEN b
    ELSE IF b = 0 THEN a
    ELSE (IF a % 2 = 1 \/ b % 2 = 1 THEN 1 ELSE 0) + 2 * BitOr(a \div 2, b \div 2)

Byte == 0 .. 255

\* Conversion to uint16_t / uint8_t: reduction modulo 2^16 / 2^8.
ToUint16(n) == n % 65536
ToUint8(n) == n % 256

\* ------------------------------------------------------- uint64_t as limbs

Limb == 2 ^ 16

\* A non-negative integer below 2^31 as a uint64_t.
U64(n) == << n % Limb, (n \div Limb) % Limb, 0, 0 >>

Zero64 == << 0, 0, 0, 0 >>

\* a + b modulo 2^64.
Add64(a, b) ==
    LET s1 == a[1] + b[1]
        s2 == a[2] + b[2] + (s1 \div Limb)
        s3 == a[3] + b[3] + (s2 \div Limb)
        s4 == a[4] + b[4] + (s3 \div Limb)
    IN  << s1 % Limb, s2 % Limb, s3 % Limb, s4 % Limb >>

\* a - b modulo 2^64 (unsigned subtraction wraps).
Sub64(a, b) ==
    LET d1 == a[1] - b[1]
        d2 == a[2] - b[2] - (IF d1 < 0 THEN 1 ELSE 0)
        d3 == a[3] - b[3] - (IF d2 < 0 THEN 1 ELSE 0)
        d4 == a[4] - b[4] - (IF d3 < 0 THEN 1 ELSE 0)
    IN  << d1 % Limb, d2 % Limb, d3 % Limb, d4 % Limb >>

\* a < b as unsigned 64-bit values.
Lt64(a, b) ==
    \/ a[4] < b[4]
    \/ a[4] = b[4] /\ a[3] < b[3]
    \/ a[4] = b[4] /\ a[3] = b[3] /\ a[2] < b[2]
    \/ a[4] = b[4] /\ a[3] = b[3] /\ a[2] = b[2] /\ a[1] < b[1]

Le64(a, b) == a = b \/ Lt64(a, b)

\* Conversion to useconds_t (unsigned 32 bits), kept as a uint64_t.
ToUint32(a) == << a[1], a[2], 0, 0 >>

\* --------------------------------------------------------------- catalogs

Dimensions == 0 .. (MaxDimensions - 1)

internaltemp == 0
batlevel == 1
chargelimit == 2
chargeterm == 3
batcharge == 4
batdischarge == 5
batvoltage == 6
acinvoltage == 7
acincurrent == 8
vbusvoltage == 9
vbusvoltagelimit == 10
vbuscurrent == 11
vbuscurrentlimit == 12

EMPTY_DIM == MaxDimensions

\* Name, DataType and DataFormat of every dimension ("%hhu" is PRIu8, "%hu"
\* is PRIu16); the display properties are part of the DIMENSION line.
gDimensionDefinitions ==
    << [Name |-> "internaltemp",     DataType |-> "Float",  DataFormat |-> "%.1f", Properties |-> "Internal Temp absolute"],
       [Name |-> "batlevel",         DataType |-> "Uint8",  DataFormat |-> "%hhu", Properties |-> "Charge absolute"],
       [Name |-> "chargelimit",      DataType |-> "Uint16", DataFormat |-> "%hu",  Properties |-> "Charge Limit absolute"],
       [Name |-> "chargeterm",       DataType |-> "Uint16", DataFormat |-> "%hu",  Properties |-> "Charge Termination Limit absolute"],
       [Name |-> "batcharge",        DataType |-> "Float",  DataFormat |-> "%.1f", Properties |-> "Batt Charge absolute"],
       [Name |-> "batdischarge",     DataType |-> "Uint16", DataFormat |-> "%hu",  Properties |-> "Batt Discharge absolute"],
       [Name |-> "batvoltage",       DataType |-> "Float",  DataFormat |-> "%.1f", Properties |-> "Voltage absolute"],
       [Name |-> "acinvoltage",      DataType |-> "Float",  DataFormat |-> "%.1f", Properties |-> "Voltage absolute"],
       [Name |-> "acincurrent",      DataType |-> "Float",  DataFormat |-> "%.3f", Properties |-> "Current absolute"],
       [Name |-> "vbusvoltage",      DataType |-> "Float",  DataFormat |-> "%.1f", Properties |-> "Voltage absolute"],
       [Name |-> "vbusvoltagelimit", DataType |-> "Uint16", DataFormat |-> "%hu",  Properties |-> "Limit absolute"],
       [Name |-> "vbuscurrent",      DataType |-> "Float",  DataFormat |-> "%.3f", Properties |-> "Current absolute"],
       [Name |-> "vbuscurrentlimit", DataType |-> "Uint16", DataFormat |-> "%hu",  Properties |-> "Limit absolute"] >>

\* The definition of dimension index (the enum counts from 0).
DimDef(index) == gDimensionDefinitions[index + 1]

gChartDefinitions ==
    << [Name |-> "Chip.temps",          Properties |-> "Temperature / Degrees (F)", Dimensions |-> << internaltemp, EMPTY_DIM, EMPTY_DIM, EMPTY_DIM >>],
       [Name |-> "Chip.batterylevel",   Properties |-> "Battery Level / %", Dimensions |-> << batlevel, EMPTY_DIM, EMPTY_DIM, EMPTY_DIM >>],
       [Name |-> "Chip.batterycurrent", Properties |-> "Battery Current / mA", Dimensions |-> << chargelimit, chargeterm, batcharge, batdischarge >>],
       [Name |-> "Chip.batteryvoltage", Properties |-> "Battery Voltage / mV", Dimensions |-> << batvoltage, EMPTY_DIM, EMPTY_DIM, EMPTY_DIM >>],
       [Name |-> "Chip.acinvoltage",    Properties |-> "ACIN Voltage / mV", Dimensions |-> << acinvoltage, EMPTY_DIM, EMPTY_DIM, EMPTY_DIM >>],
       [Name |-> "Chip.acincurrent",    Properties |-> "ACIN Current / mA", Dimensions |-> << acincurrent, EMPTY_DIM, EMPTY_DIM, EMPTY_DIM >>],
       [Name |-> "Chip.vbusvoltage",    Properties |-> "VBUS Voltage / mV", Dimensions |-> << vbusvoltage, vbusvoltagelimit, EMPTY_DIM, EMPTY_DIM >>],
       [Name |-> "Chip.vbuscurrent",    Properties |-> "VBUS Current / mA", Dimensions |-> << vbuscurrent, vbuscurrentlimit, EMPTY_DIM, EMPTY_DIM >>] >>

NUM_CHARTS == Len(gChartDefinitions)

\* ------------------------------------------------- value_t and its strings

\* memset(gData, 0, sizeof(gData)): every member of every cell reads 0.
ZeroCell == [as |-> "zero", milli |-> 0]

ZeroData == [i \in Dimensions |-> ZeroCell]

RECURSIVE Log2Floor(_)
\* The exponent e with 2^e <= v < 2^(e+1), for v >= 1.
Log2Floor(v) == IF v < 2 THEN 0 ELSE 1 + Log2Floor(v \div 2)

\* The low 16 bits of the IEEE-754 single holding the integer v, 0 <= v < 2^24:
\* the low 16 bits of its 23-bit fraction field (v - 2^e) * 2^(23 - e).
Float32Low16(v) ==
    IF v = 0 THEN 0
    ELSE LET e == Log2Floor(v)
         IN  ((v - 2 ^ e) * 2 ^ (23 - e)) % 65536

\* gData[index].asFloat, in thousandths.  Bytes last written through an
\* integer member (at most 16 bits set) read as a denormal below 10^-40.
AsFloat(cell) == IF cell.as = "asFloat" THEN cell.milli ELSE 0

\* gData[index].asUint16: the first two bytes of the cell.  The program
\* stores only integer-valued floats in cells it reads as integers.
AsUint16(cell) ==
    IF cell.as = "asFloat" THEN Float32Low16(cell.milli \div 1000)
    ELSE cell.milli \div 1000

\* gData[index].asUint8: the first byte of the cell.
AsUint8(cell) == AsUint16(cell) % 256

EmptyString == [fmt |-> "", n |-> 0]

\* sprintf with "%.1f" or "%.3f" of a float given in thousandths: the decimal
\* rounded to the precision, as a count of units of the last digit printed.
SprintfFloat(fmt, milli) ==
    [fmt |-> fmt, n |-> IF fmt = "%.1f" THEN (milli + 50) \div 100 ELSE milli]

\* sprintf with "%hhu" or "%hu" of an unsigned value.
SprintfUint(fmt, v) == [fmt |-> fmt, n |-> v]

\* The data store: gData and gIsValid as one value, st = [data, valid].
IsValid(valid, index) == BitAnd(valid, 2 ^ index) # 0

save_data_float(st, index, milli) ==
    [data  |-> [st.data EXCEPT ![index] = [as |-> "asFloat", milli |-> milli]],
     valid |-> BitOr(st.valid, 2 ^ index)]

save_data_uint8(st, index, value) ==
    [data  |-> [st.data EXCEPT ![index] = [as |-> "asUint8", milli |-> ToUint8(value) * 1000]],
     valid |-> BitOr(st.valid, 2 ^ index)]

save_data_uint16(st, index, value) ==
    [data  |-> [st.data EXCEPT ![index] = [as |-> "asUint16", milli |-> ToUint16(value) * 1000]],
     valid |-> BitOr(st.valid, 2 ^ index)]

format_data_value(st, index) ==
    IF ~IsValid(st.valid, index) THEN EmptyString
    ELSE CASE DimDef(index).DataType = "Float" ->
                SprintfFloat(DimDef(index).DataFormat, AsFloat(st.data[index]))
           [] DimDef(index).DataType = "Uint8" ->
                SprintfUint(DimDef(index).DataFormat, AsUint8(st.data[index]))
           [] DimDef(index).DataType = "Uint16" ->
                SprintfUint(DimDef(index).DataFormat, AsUint16(st.data[index]))

\* ------------------------------------------------------------ the I2C bus

\* AXP209 registers the program touches: 0x01, 0x30, 0x33, 0x56..0x5F,
\* 0x78..0x7D, 0x82, 0x83 and 0xB9.
Registers == {1, 48, 51, 130, 131, 185} \cup (86 .. 95) \cup (120 .. 125)

\* High-byte registers of the two-register quantities, and 0x7C, 0xB9.
HighRegisters == {86, 88, 90, 92, 94, 120, 122, 124, 185}

\* A register file: power status 0x01, charge control 0x33, VBUS-IPSOUT 0x30,
\* the ADC enable registers 0x82 and 0x83, one byte in every high data
\* register and one in every low data register.
MkRegs(ps, cc, ips, hi, lo, e82, e83) ==
    [a \in Registers |->
        CASE a = 1   -> ps
          [] a = 51  -> cc
          [] a = 48  -> ips
          [] a = 130 -> e82
          [] a = 131 -> e83
          [] a \in HighRegisters -> hi
          [] OTHER -> lo]

\* The value read_register_value returns when both transfers succeed.
read_register_value(reg, address) == reg[address]

\* A faulty variant: the low byte masked with 0x1F.
read_multi_value_Mask1F(reg, highaddress, lowaddress) ==
    LET highvalue == read_register_value(reg, highaddress)
        lowvalue  == read_register_value(reg, lowaddress)
    IN  ToUint16(BitOr(highvalue * 16, BitAnd(lowvalue, 31)))

\* (highvalue << 4) | (lowvalue & 0xF), returned as uint16_t.
read_multi_value(reg, highaddress, lowaddress) ==
    LET highvalue == read_register_value(reg, highaddress)
        lowvalue  == read_register_value(reg, lowaddress)
    IN  ToUint16(BitOr(highvalue * 16, BitAnd(lowvalue, 15)))

\* ------------------------------------------------------ gather_chart_data

\* A faulty variant: the reset at lines 243-244 left out.
ResetData_Keep == store

\* memset(gData, 0, sizeof(gData)); gIsValid = 0.
ResetData == [data |-> ZeroData, valid |-> 0]

\* float temp = read_multi_value(0x5E, 0x5F) * 0.18 - 228.46 (thousandths).
GatherTemp(st, reg) ==
    save_data_float(st, internaltemp, read_multi_value(reg, 94, 95) * 180 - 228460)

\* A faulty variant: the field masked with 0x1f instead of 0xf.
ChargeCurrentLimit_Mask1F(ctl) == ToUint16(BitAnd(ctl, 31) * 100 + 300)

\* (uint16_t)(charge_ctl & 0xf) * 100 + 300
ChargeCurrentLimit(ctl) == ToUint16(BitAnd(ctl, 15) * 100 + 300)

\* charge_current_limit / 10, plus its own half when charge_ctl & 0x10.
ChargeTerminationLimit(ctl) ==
    LET tenth == ChargeCurrentLimit(ctl) \div 10
    IN  IF BitAnd(ctl, 16) # 0 THEN ToUint16(tenth + tenth \div 2) ELSE tenth

ChargeBlock(st, ctl) ==
    IF BitAnd(ctl, 128) # 0
    THEN save_data_uint16(
             save_data_uint16(st, chargelimit, ChargeCurrentLimit(ctl)),
             chargeterm, ChargeTerminationLimit(ctl))
    ELSE st

BatteryPresent(status) == BitAnd(status, 32) # 0

AcinPresent(status) == BitAnd(status, 128) # 0

BatteryBlock(st, status, reg) ==
    IF BatteryPresent(status)
    THEN LET s1 == save_data_float(st, batcharge, read_multi_value(reg, 122, 123) * 500)
             s2 == save_data_uint16(s1, batdischarge,
                       BitOr(read_register_value(reg, 124) * 32,
                             BitAnd(read_register_value(reg, 125), 31)))
             s3 == save_data_uint8(s2, batlevel, BitAnd(read_register_value(reg, 185), 127))
         IN  save_data_float(s3, batvoltage, read_multi_value(reg, 120, 121) * 1100)
    ELSE st

AcinBlock(st, status, reg) ==
    IF AcinPresent(status)
    THEN save_data_float(
             save_data_float(st, acinvoltage, read_multi_value(reg, 86, 87) * 1700),
             acincurrent, read_multi_value(reg, 88, 89) * 625)
    ELSE st

\* A faulty variant: the VBUS measurements gated by the ACIN bit.
VbusBlock_GatedByAcin(st, status, reg) ==
    IF AcinPresent(status)
    THEN save_data_float(
             save_data_float(st, vbusvoltage, read_multi_value(reg, 90, 91) * 1700),
             vbuscurrent, read_multi_value(reg, 92, 93) * 375)
    ELSE st

VbusBlock(st, status, reg) ==
    IF BatteryPresent(status)
    THEN save_data_float(
             save_data_float(st, vbusvoltage, read_multi_value(reg, 90, 91) * 1700),
             vbuscurrent, read_multi_value(reg, 92, 93) * 375)
    ELSE st

\* (vbus_ipsout >> 3) * 100 + 4000, as uint16_t.
VbusVoltageLimit(vbus_ipsout) == ToUint16((vbus_ipsout \div 8) * 100 + 4000)

targets == << 900, 500, 100 >>

\* The limit is stored with save_data_float: the uint16_t converts to float.
VoltageLimitBlock(st, vbus_ipsout) ==
    IF BitAnd(vbus_ipsout, 64) # 0
    THEN save_data_float(st, vbusvoltagelimit, VbusVoltageLimit(vbus_ipsout) * 1000)
    ELSE st

\* A faulty variant: the field taken with mask 0x7 instead of 0x3.
CurrentLimitBlock_Mask7(st, vbus_ipsout) ==
    IF BitAnd(vbus_ipsout, 7) < 3
    THEN save_data_uint16(st, vbuscurrentlimit, targets[BitAnd(vbus_ipsout, 7) + 1])
    ELSE st

\* Lines 300-304: targets[vbus_ipsout & 0x3] is stored when the field is
\* less than 3 (C arrays count from 0, sequences from 1).
CurrentLimitBlock(st, vbus_ipsout) ==
    IF BitAnd(vbus_ipsout, 3) < 3
    THEN save_data_uint16(st, vbuscurrentlimit, targets[BitAnd(vbus_ipsout, 3) + 1])
    ELSE st

\* ------------------------------------------------------------- the output

\* A line of standard output: t is the keyword, id the chart or dimension
\* name, props the rest of a CHART or DIMENSION line, hasUs and us the
\* optional microseconds of a BEGIN line, txt the value of a SET line.
Line(t, id, props, hasUs, us, txt) ==
    [t |-> t, id |-> id, props |-> props, hasUs |-> hasUs, us |-> us, txt |-> txt]

\* The dimensions of chart c that are not EMPTY_DIM, in declared order.
ChartDims(c) ==
    SelectSeq(gChartDefinitions[c].Dimensions, LAMBDA d : d # EMPTY_DIM)

PreambleOfChart(c) ==
    << Line("CHART", gChartDefinitions[c].Name, gChartDefinitions[c].Properties,
            FALSE, Zero64, EmptyString) >>
    \o [k \in 1 .. Len(ChartDims(c)) |->
            Line("DIMENSION", DimDef(ChartDims(c)[k]).Name,
                 DimDef(ChartDims(c)[k]).Properties, FALSE, Zero64, EmptyString)]

RECURSIVE PreambleUpTo(_)
\* The lines of the first n charts (the loop over chartindex).
PreambleUpTo(n) ==
    IF n = 0 THEN << >> ELSE PreambleUpTo(n - 1) \o PreambleOfChart(n)

\* The lines print_charts_preamble writes and flushes.
print_charts_preamble == PreambleUpTo(NUM_CHARTS)

\* BEGIN carries the microseconds only if (delayus) is non-zero.
BeginLine(c, delayus) ==
    Line("BEGIN", gChartDefinitions[c].Name, "", delayus # Zero64, delayus, EmptyString)

\* A faulty variant: no SET line for a dimension that is not valid.
DataOfChart_SkipInvalid(st, delayus, c) ==
    << BeginLine(c, delayus) >>
    \o SelectSeq([k \in 1 .. Len(ChartDims(c)) |->
            Line("SET", DimDef(ChartDims(c)[k]).Name, "", FALSE, Zero64,
                 format_data_value(st, ChartDims(c)[k]))],
                 LAMBDA l : l.txt # EmptyString)
    \o << Line("END", "", "", FALSE, Zero64, EmptyString) >>

\* Lines 351-375: one chart's BEGIN, SET lines and END.
DataOfChart(st, delayus, c) ==
    << BeginLine(c, delayus) >>
    \o [k \in 1 .. Len(ChartDims(c)) |->
            Line("SET", DimDef(ChartDims(c)[k]).Name, "", FALSE, Zero64,
                 format_data_value(st, ChartDims(c)[k]))]
    \o << Line("END", "", "", FALSE, Zero64, EmptyString) >>

RECURSIVE DataUpTo(_, _, _)
\* The lines of the first n charts (the loop over chartindex).
DataUpTo(st, delayus, n) ==
    IF n = 0 THEN << >> ELSE DataUpTo(st, delayus, n - 1) \o DataOfChart(st, delayus, n)

\* The lines print_chart_data(delayus) writes and flushes.
print_chart_data(st, delayus) == DataUpTo(st, delayus, NUM_CHARTS)

\* ------------------------------------------------------------ main's sums

\* gUpdateEvery = atoi(argv[1]): the int is converted to uint16_t.
ParseUpdateEvery(n) == ToUint16(n)

UsageError(updateEvery) == updateEvery < MinUpdateEvery \/ updateEvery > MaxUpdateEvery

\* A faulty variant: the test of endtimeus left out.
ElapsedSinceLastFrame_Unguarded(start, end) == Sub64(start, end)

\* The time since the last frame: starttimeus - endtimeus unless endtimeus is 0.
ElapsedSinceLastFrame(start, end) ==
    IF end # Zero64 THEN Sub64(start, end) ELSE Zero64

\* The argument of the end-of-cycle usleep: gUpdateEvery * 1000000L - delta is
\* computed in uint64_t and converted to useconds_t.
SleepArgument(updateEvery, processing) ==
    ToUint32(Sub64(U64(updateEvery * UsecPerSec), processing))

\* ---------------------------------------------------------- environment

\* The command line: argc and, when argc >= 2, the integer atoi(argv[1]).
CommandLines ==
    { [argc |-> 1, n |-> 0] } \cup
    { [argc |-> 2, n |-> n] : n \in {-1, 0, 1, 360, 361, 65537} }

\* Register files the device shows during a cycle, as power status, charge
\* control, VBUS-IPSOUT, high data byte, low data byte: everything present
\* (0xA0, 0x9F, 0x60, 0x12, 0x3F) and nothing present (0x00, 0x0F, 0x03).
Scenes ==
    { << 160, 159, 96, 18, 63 >>, << 0, 15, 3, 255, 255 >> }

\* The ADC enable registers as the program finds them: both enabled, none
\* enabled, only 0x82 enabled.
EnableScenes == { << 204, 128 >>, << 0, 0 >>, << 207, 1 >> }

\* CLOCK_MONOTONIC in microseconds when the process starts.
BootClocks == { Zero64, U64(5000000) }

\* Microseconds between the two clock readings of a cycle (at least five
\* register reads lie between them): less than, equal to and more than the
\* 1 s interval.
ProcessingTimes == { 400000, 1000000, 1300000 }

Init ==
    /\ pc = "main"
    /\ exitCode = -1
    /\ cmdline \in CommandLines
    /\ gUpdateEvery = 0
    /\ gI2c = 0
    /\ \E s \in Scenes, e \in EnableScenes :
           regfile = MkRegs(s[1], s[2], s[3], s[4], s[5], e[1], e[2])
    /\ buswrites = << >>
    /\ wait = FALSE
    /\ waited = FALSE
    /\ gData = ZeroData
    /\ gIsValid = 0
    /\ power_status = 0
    /\ charge_ctl = 0
    /\ out = << >>
    /\ now \in BootClocks
    /\ starttimeus = Zero64
    /\ endtimeus = Zero64
    /\ delta = Zero64
    /\ prevendtimeus = Zero64
    /\ sleepus = Zero64
    /\ cycles = 0

\* exit(code), or return code from main.
Exit(code) == pc' = "exited" /\ exitCode' = code

\* The register file after write_register_value(address, value) succeeded.
write_register_value(reg, address, value) == [reg EXCEPT ![address] = value]

\* --------------------------------------------------------------- startup

\* main, lines 385-393: the optional argument.
ParseArgs ==
    /\ pc = "main"
    /\ LET updateEvery == IF cmdline.argc >= 2 THEN ParseUpdateEvery(cmdline.n) ELSE 1
       IN  /\ gUpdateEvery' = updateEvery
           /\ IF cmdline.argc >= 2 /\ UsageError(updateEvery)
              THEN Exit(1)
              ELSE pc' = "open" /\ exitCode' = exitCode
    /\ UNCHANGED << cmdline, gI2c, regfile, buswrites, wait, waited, gData, gIsValid,
                    power_status, charge_ctl, out, now, starttimeus, endtimeus,
                    delta, prevendtimeus, sleepus, cycles >>

\* A faulty variant: print_charts_preamble called before the bus is opened.
OpenBus_PreambleFirst ==
    /\ pc = "open"
    /\ out' = out \o print_charts_preamble
    /\ \E fd \in {-1, 3} :
           /\ gI2c' = fd
           /\ IF fd < 0 THEN Exit(1) ELSE pc' = "ioctl" /\ exitCode' = exitCode
    /\ UNCHANGED << cmdline, gUpdateEvery, regfile, buswrites, wait, waited, gData,
                    gIsValid, power_status, charge_ctl, now, starttimeus,
                    endtimeus, delta, prevendtimeus, sleepus, cycles >>

\* main, lines 397-401: open("/dev/i2c-0") succeeds or fails.
OpenBus ==
    /\ pc = "open"
    /\ \E fd \in {-1, 3} :
           /\ gI2c' = fd
           /\ IF fd < 0 THEN Exit(1) ELSE pc' = "ioctl" /\ exitCode' = exitCode
    /\ UNCHANGED << cmdline, gUpdateEvery, regfile, buswrites, wait, waited, gData,
                    gIsValid, power_status, charge_ctl, out, now, starttimeus,
                    endtimeus, delta, prevendtimeus, sleepus, cycles >>

\* enable_adc, lines 199-207, and main, lines 403-406: addressing the device
\* succeeds or fails; on failure enable_adc returns it and main returns 1.
EnableIoctl ==
    /\ pc = "ioctl"
    /\ \E err \in {-1, 0} :
           IF err < 0 THEN Exit(1) ELSE pc' = "enable82" /\ exitCode' = exitCode
    /\ wait' = FALSE
    /\ UNCHANGED << cmdline, gUpdateEvery, gI2c, regfile, buswrites, waited, gData,
                    gIsValid, power_status, charge_ctl, out, now, starttimeus,
                    endtimeus, delta, prevendtimeus, sleepus, cycles >>

\* A faulty variant: the mask alone is written back.
EnableRegister_MaskOnly(address, mask) ==
    LET value == ToUint8(read_register_value(regfile, address))
    IN  IF BitAnd(value, mask) # mask
        THEN /\ regfile' = write_register_value(regfile, address, mask)
             /\ buswrites' = Append(buswrites, << address, mask >>)
             /\ wait' = TRUE
        ELSE UNCHANGED << regfile, buswrites, wait >>

\* enable_adc: read register `address` and, if it lacks a bit of `mask`,
\* write it back with the mask set and raise wait.
EnableRegister(address, mask) ==
    LET value == ToUint8(read_register_value(regfile, address))
    IN  IF BitAnd(value, mask) # mask
        THEN /\ regfile' = write_register_value(regfile, address, BitOr(value, mask))
             /\ buswrites' = Append(buswrites, << address, BitOr(value, mask) >>)
             /\ wait' = TRUE
        ELSE UNCHANGED << regfile, buswrites, wait >>

\* enable_adc, lines 209-213: register 0x82 needs 0xCC.
Enable82 ==
    /\ pc = "enable82"
    /\ EnableRegister(130, 204)
    /\ pc' = "enable83"
    /\ UNCHANGED << exitCode, cmdline, gUpdateEvery, gI2c, waited, gData, gIsValid,
                    power_status, charge_ctl, out, now, starttimeus, endtimeus,
                    delta, prevendtimeus, sleepus, cycles >>

\* enable_adc, lines 215-219: register 0x83 needs 0x80.
Enable83 ==
    /\ pc = "enable83"
    /\ EnableRegister(131, 128)
    /\ pc' = "enablewait"
    /\ UNCHANGED << exitCode, cmdline, gUpdateEvery, gI2c, waited, gData, gIsValid,
                    power_status, charge_ctl, out, now, starttimeus, endtimeus,
                    delta, prevendtimeus, sleepus, cycles >>

\* enable_adc, lines 223-227: usleep(40000) if a register was written.
EnableWait ==
    /\ pc = "enablewait"
    /\ IF wait
       THEN now' = Add64(now, U64(AdcSettleUs)) /\ waited' = TRUE
       ELSE UNCHANGED << now, waited >>
    /\ pc' = "preamble"
    /\ UNCHANGED << exitCode, cmdline, gUpdateEvery, gI2c, regfile, buswrites, wait,
                    gData, gIsValid, power_status, charge_ctl, out, starttimeus,
                    endtimeus, delta, prevendtimeus, sleepus, cycles >>

\* main, lines 410-417: the chart definitions, then endtimeus = 0.
PrintPreamble ==
    /\ pc = "preamble"
    /\ out' = out \o print_charts_preamble
    /\ endtimeus' = Zero64
    /\ pc' = "loop"
    /\ UNCHANGED << exitCode, cmdline, gUpdateEvery, gI2c, regfile, buswrites, wait,
                    waited, gData, gIsValid, power_status, charge_ctl, now,
                    starttimeus, delta, prevendtimeus, sleepus, cycles >>

\* ---------------------------------------------------------- the main loop

\* A faulty variant: print_charts_preamble called inside the loop.
CycleStart_WithPreamble ==
    /\ pc = "loop"
    /\ cycles < MaxCycles
    /\ out' = out \o print_charts_preamble
    /\ starttimeus' = now
    /\ delta' = ElapsedSinceLastFrame(now, endtimeus)
    /\ pc' = "gather"
    /\ UNCHANGED << exitCode, cmdline, gUpdateEvery, gI2c, regfile, buswrites, wait,
                    waited, gData, gIsValid, power_status, charge_ctl, now,
                    endtimeus, prevendtimeus, sleepus, cycles >>

\* main, lines 420-431: the cycle's first clock reading and the time since
\* the last frame.
CycleStart ==
    /\ pc = "loop"
    /\ cycles < MaxCycles
    /\ starttimeus' = now
    /\ delta' = ElapsedSinceLastFrame(now, endtimeus)
    /\ pc' = "gather"
    /\ UNCHANGED << exitCode, cmdline, gUpdateEvery, gI2c, regfile, buswrites, wait,
                    waited, gData, gIsValid, power_status, charge_ctl, out, now,
                    endtimeus, prevendtimeus, sleepus, cycles >>

\* gather_chart_data, lines 243-250: the reset, the two status registers
\* and the temperature.
GatherStatus ==
    /\ pc = "gather"
    /\ power_status' = ToUint8(read_register_value(regfile, 1))
    /\ charge_ctl' = ToUint8(read_register_value(regfile, 51))
    /\ gData' = GatherTemp(ResetData, regfile).data
    /\ gIsValid' = GatherTemp(ResetData, regfile).valid
    /\ pc' = "charge"
    /\ UNCHANGED << exitCode, cmdline, gUpdateEvery, gI2c, regfile, buswrites, wait,
                    waited, out, now, starttimeus, endtimeus, delta, prevendtimeus,
                    sleepus, cycles >>

\* One block of gather_chart_data that leaves `after` in the store.
GatherStep(from, to, after) ==
    /\ pc = from
    /\ gData' = after.data
    /\ gIsValid' = after.valid
    /\ pc' = to
    /\ UNCHANGED << exitCode, cmdline, gUpdateEvery, gI2c, regfile, buswrites, wait,
                    waited, power_status, charge_ctl, out, now, starttimeus,
                    endtimeus, delta, prevendtimeus, sleepus, cycles >>

\* gather_chart_data, lines 252-262.
GatherCharge == GatherStep("charge", "battery", ChargeBlock(store, charge_ctl))

\* gather_chart_data, lines 264-276.
GatherBattery == GatherStep("battery", "acin", BatteryBlock(store, power_status, regfile))

\* gather_chart_data, lines 278-284.
GatherAcin == GatherStep("acin", "vbus", AcinBlock(store, power_status, regfile))

\* gather_chart_data, lines 286-292.
GatherVbus == GatherStep("vbus", "limits", VbusBlock(store, power_status, regfile))

\* gather_chart_data, lines 294-304: vbus_ipsout and the two limits.
GatherLimits ==
    LET vbus_ipsout == ToUint8(read_register_value(regfile, 48))
    IN  GatherStep("limits", "print",
                   CurrentLimitBlock(VoltageLimitBlock(store, vbus_ipsout), vbus_ipsout))

\* main, line 435: print_chart_data(delta).
PrintData ==
    /\ pc = "print"
    /\ out' = out \o print_chart_data(store, delta)
    /\ pc' = "end"
    /\ UNCHANGED << exitCode, cmdline, gUpdateEvery, gI2c, regfile, buswrites, wait,
                    waited, gData, gIsValid, power_status, charge_ctl, now,
                    starttimeus, endtimeus, delta, prevendtimeus, sleepus, cycles >>

\* main, lines 440-444: the cycle's second clock reading, some processing
\* time after the first, and the call of usleep.
CycleEnd ==
    /\ pc = "end"
    /\ \E p \in ProcessingTimes :
           /\ now' = Add64(now, U64(p))
           /\ endtimeus' = now'
           /\ delta' = Sub64(now', starttimeus)
           /\ sleepus' = SleepArgument(gUpdateEvery, delta')
    /\ prevendtimeus' = endtimeus
    /\ pc' = "sleep"
    /\ UNCHANGED << exitCode, cmdline, gUpdateEvery, gI2c, regfile, buswrites, wait,
                    waited, gData, gIsValid, power_status, charge_ctl, out,
                    starttimeus, cycles >>

\* A faulty variant: the loop is left when usleep has returned, and main
\* returns 0.
SleepReturn_LeaveLoop ==
    /\ pc = "sleep"
    /\ now' = Add64(now, sleepus)
    /\ cycles' = cycles + 1
    /\ Exit(0)
    /\ UNCHANGED << cmdline, gUpdateEvery, gI2c, regfile, buswrites, wait, waited,
                    gData, gIsValid, power_status, charge_ctl, out, starttimeus,
                    endtimeus, delta, prevendtimeus, sleepus >>

\* usleep returns after the time asked for; the device's measurements and
\* status have changed meanwhile, its ADC enable registers have not.
SleepReturn ==
    /\ pc = "sleep"
    /\ now' = Add64(now, sleepus)
    /\ \E s \in Scenes :
           regfile' = MkRegs(s[1], s[2], s[3], s[4], s[5], regfile[130], regfile[131])
    /\ cycles' = cycles + 1
    /\ pc' = "loop"
    /\ UNCHANGED << exitCode, cmdline, gUpdateEvery, gI2c, buswrites, wait, waited,
                    gData, gIsValid, power_status, charge_ctl, out, starttimeus,
                    endtimeus, delta, prevendtimeus, sleepus >>

\* A faulty variant: a register is still read after the frame was printed.
BusStep_AfterPrint ==
    \/ pc \in {"enable82", "enable83", "gather", "limits", "end"}
    \/ pc \in {"battery", "vbus"} /\ BatteryPresent(power_status)
    \/ pc = "acin" /\ AcinPresent(power_status)

\* The step at pc transfers on the bus.
BusStep ==
    \/ pc \in {"enable82", "enable83", "gather", "limits"}
    \/ pc \in {"battery", "vbus"} /\ BatteryPresent(power_status)
    \/ pc = "acin" /\ AcinPresent(power_status)

\* read_register_value and write_register_value, lines 166-176 and 186-190:
\* a transfer of the step at pc fails and the process exits with 1.  The
\* memory of the process is gone with it: the store is left as the step
\* found it.
BusFail ==
    /\ BusStep
    /\ Exit(1)
    /\ UNCHANGED << cmdline, gUpdateEvery, gI2c, regfile, buswrites, wait, waited,
                    gData, gIsValid, power_status, charge_ctl, out, now,
                    starttimeus, endtimeus, delta, prevendtimeus, sleepus, cycles >>

Next ==
    \/ ParseArgs
    \/ OpenBus
    \/ EnableIoctl
    \/ Enable82
    \/ Enable83
    \/ EnableWait
    \/ PrintPreamble
    \/ CycleStart
    \/ GatherStatus
    \/ GatherCharge
    \/ GatherBattery
    \/ GatherAcin
    \/ GatherVbus
    \/ GatherLimits
    \/ PrintData
    \/ CycleEnd
    \/ SleepReturn
    \/ BusFail

Spec == Init /\ [][Next]_vars

\* ------------------------------------------------- the loop, fairly run

\* main as it enters the loop at line 419: the interval 1 s or 360 s, the ADC
\* found enabled, the preamble written, endtimeus = 0.
InitSteady ==
    /\ pc = "loop"
    /\ exitCode = -1
    /\ gUpdateEvery \in {MinUpdateEvery, MaxUpdateEvery}
    /\ cmdline = [argc |-> 2, n |-> gUpdateEvery]
    /\ gI2c = 3
    /\ \E s \in Scenes : regfile = MkRegs(s[1], s[2], s[3], s[4], s[5], 204, 128)
    /\ buswrites = << >>
    /\ wait = FALSE
    /\ waited = FALSE
    /\ gData = ZeroData
    /\ gIsValid = 0
    /\ power_status = 0
    /\ charge_ctl = 0
    /\ out = print_charts_preamble
    /\ now = U64(5000000)
    /\ starttimeus = Zero64
    /\ endtimeus = Zero64
    /\ delta = Zero64
    /\ prevendtimeus = Zero64
    /\ sleepus = Zero64
    /\ cycles = 0

NextSteady ==
    \/ CycleStart
    \/ GatherStatus
    \/ GatherCharge
    \/ GatherBattery
    \/ GatherAcin
    \/ GatherVbus
    \/ GatherLimits
    \/ PrintData
    \/ CycleEnd
    \/ SleepReturn
    \/ BusFail

\* A step of the loop in main itself.
LoopStep == CycleStart \/ PrintData \/ CycleEnd \/ SleepReturn

\* A block of gather_chart_data.
GatherSteps ==
    \/ GatherStatus \/ GatherCharge \/ GatherBattery \/ GatherAcin \/ GatherVbus
    \/ GatherLimits

\* Where gather_chart_data stands while one of its blocks is still to run:
\* the states in which GatherSteps is enabled.
Gathering == pc \in {"gather", "charge", "battery", "acin", "vbus", "limits"}

\* The process is scheduled and every call it makes returns: the step the
\* program is at is taken in the end, the return of usleep included.  A
\* failure of the bus is the device's to take or leave.  The second conjunct
\* is WF_vars(GatherSteps) with ENABLED <<GatherSteps>>_vars written out as
\* Gathering.
Fairness ==
    /\ WF_vars(LoopStep)
    /\ ([]<>(~Gathering) \/ []<><<GatherSteps>>_vars)

SpecSteady == InitSteady /\ [][NextSteady]_vars /\ Fairness

\* ------------------------------------------- one decode, every register byte

\* gather_chart_data after its reset and status reads, lines 249-304, from
\* store st0 on register file reg.
DecodeFrom(st0, reg) ==
    LET status == ToUint8(read_register_value(reg, 1))
        ctl    == ToUint8(read_register_value(reg, 51))
        ips    == ToUint8(read_register_value(reg, 48))
        s1 == GatherTemp(st0, reg)
        s2 == ChargeBlock(s1, ctl)
        s3 == BatteryBlock(s2, status, reg)
        s4 == AcinBlock(s3, status, reg)
        s5 == VbusBlock(s4, status, reg)
    IN  CurrentLimitBlock(VoltageLimitBlock(s5, ips), ips)

\* Register files for a single decode: each of the three status and control
\* registers runs over every byte while the other two take the values of
\* Scenes; data bytes 0x12/0x3F or 0xFF/0xFF.
DecodeRegfiles ==
    LET few == {s[1] : s \in Scenes}
        fewCtl == {s[2] : s \in Scenes}
        fewIps == {s[3] : s \in Scenes}
        data == {<< s[4], s[5] >> : s \in Scenes}
    IN  { MkRegs(ps, cc, ips, d[1], d[2], 204, 128) :
            ps \in Byte, cc \in fewCtl, ips \in fewIps, d \in data }
        \cup
        { MkRegs(ps, cc, ips, d[1], d[2], 204, 128) :
            ps \in few, cc \in Byte, ips \in fewIps, d \in data }
        \cup
        { MkRegs(ps, cc, ips, d[1], d[2], 204, 128) :
            ps \in few, cc \in fewCtl, ips \in Byte, d \in data }

\* The first Steady cycle about to gather: no argument given, the ADC found
\* enabled, the preamble written, the cycle's start time taken.
InitDecode ==
    /\ pc = "gather"
    /\ exitCode = -1
    /\ cmdline = [argc |-> 1, n |-> 0]
    /\ gUpdateEvery = 1
    /\ gI2c = 3
    /\ regfile \in DecodeRegfiles
    /\ buswrites = << >>
    /\ wait = FALSE
    /\ waited = FALSE
    /\ gData = ZeroData
    /\ gIsValid = 0
    /\ power_status = 0
    /\ charge_ctl = 0
    /\ out = print_charts_preamble
    /\ now = U64(5000000)
    /\ starttimeus = U64(5000000)
    /\ endtimeus = Zero64
    /\ delta = Zero64
    /\ prevendtimeus = Zero64
    /\ sleepus = Zero64
    /\ cycles = 0

NextDecode ==
    \/ GatherStatus
    \/ GatherCharge
    \/ GatherBattery
    \/ GatherAcin
    \/ GatherVbus
    \/ GatherLimits
    \/ PrintData

SpecDecode == InitDecode /\ [][NextDecode]_vars

\* ------------------------------ the enable sequence, every register byte

\* The ADC enable registers as the program finds them: each of 0x82 and 0x83
\* runs over every byte while the other takes the values of EnableScenes.
EnableRegfiles ==
    { MkRegs(160, 159, 96, 18, 63, e82, e[2]) : e82 \in Byte, e \in EnableScenes }
    \cup
    { MkRegs(160, 159, 96, 18, 63, e[1], e83) : e83 \in Byte, e \in EnableScenes }

\* The bus open, no argument given, enable_adc about to run.
InitEnable ==
    /\ pc = "ioctl"
    /\ exitCode = -1
    /\ cmdline = [argc |-> 1, n |-> 0]
    /\ gUpdateEvery = 1
    /\ gI2c = 3
    /\ regfile \in EnableRegfiles
    /\ buswrites = << >>
    /\ wait = FALSE
    /\ waited = FALSE
    /\ gData = ZeroData
    /\ gIsValid = 0
    /\ power_status = 0
    /\ charge_ctl = 0
    /\ out = << >>
    /\ now \in BootClocks
    /\ starttimeus = Zero64
    /\ endtimeus = Zero64
    /\ delta = Zero64
    /\ prevendtimeus = Zero64
    /\ sleepus = Zero64
    /\ cycles = 0

\* enable_adc, the preamble and the first cycle up to its first decode reads.
NextEnable ==
    \/ EnableIoctl
    \/ Enable82
    \/ Enable83
    \/ EnableWait
    \/ PrintPreamble
    \/ CycleStart
    \/ GatherStatus
    \/ BusFail

SpecEnable == InitEnable /\ [][NextEnable]_vars

\* ------------------------------- one decode, every pair of data bytes

\* Register files with everything present (0xA0, 0x9F, 0x60) and every pair of
\* bytes in the high and low data registers.
ReassembleRegfiles ==
    { MkRegs(160, 159, 96, hi, lo, 204, 128) : hi \in Byte, lo \in Byte }

\* As InitDecode, on the register files of ReassembleRegfiles.
InitReassemble ==
    /\ pc = "gather"
    /\ exitCode = -1
    /\ cmdline = [argc |-> 1, n |-> 0]
    /\ gUpdateEvery = 1
    /\ gI2c = 3
    /\ regfile \in ReassembleRegfiles
    /\ buswrites = << >>
    /\ wait = FALSE
    /\ waited = FALSE
    /\ gData = ZeroData
    /\ gIsValid = 0
    /\ power_status = 0
    /\ charge_ctl = 0
    /\ out = print_charts_preamble
    /\ now = U64(5000000)
    /\ starttimeus = U64(5000000)
    /\ endtimeus = Zero64
    /\ delta = Zero64
    /\ prevendtimeus = Zero64
    /\ sleepus = Zero64
    /\ cycles = 0

SpecReassemble == InitReassemble /\ [][NextDecode]_vars

\* ------------------------------------------------- reading the output back

PreambleLen == NUM_CHARTS + MaxDimensions

FrameLen == 2 * NUM_CHARTS + MaxDimensions

\* Lines of keyword t written so far.
LinesOf(t) == {i \in DOMAIN out : out[i].t = t}

\* Frames begun: BEGIN lines of the first chart.
FramesWritten ==
    Cardinality({i \in LinesOf("BEGIN") : out[i].id = gChartDefinitions[1].Name})

\* Preambles begun: CHART lines of the first chart.
PreamblesWritten ==
    Cardinality({i \in LinesOf("CHART") : out[i].id = gChartDefinitions[1].Name})

\* The k-th frame, given that frames follow the preamble back to back.
Frame(k) ==
    SubSeq(out, PreambleLen + (k - 1) * FrameLen + 1, PreambleLen + k * FrameLen)

\* The value on the SET line of dimension d in frame f.
SetText(f, d) ==
    LET i == CHOOSE j \in DOMAIN f : f[j].t = "SET" /\ f[j].id = DimDef(d).Name
    IN  f[i].txt

\* The keywords of the lines of a complete frame: per chart BEGIN, one SET per
\* dimension of the chart, END.
FrameKeywords ==
    LET f == print_chart_data([data |-> ZeroData, valid |-> 0], Zero64)
    IN  [i \in DOMAIN f |-> f[i].t]

\* A frame was printed in this cycle and its usleep has not returned.
FramePrinted == pc \in {"end", "sleep"}

\* A store with nothing stored: what the reset at line 243-244 must leave.
FreshStore == [data |-> ZeroData, valid |-> 0]

\* ---------------------------------------------------------------- claims

\* C1: the preamble is written exactly once and before every line of every
\* frame, however many cycles run, and the frames written number the cycles
\* completed (one more while the cycle that printed the last frame has not
\* returned from its usleep).
C1_PreambleOnceThenFrames ==
    /\ PreamblesWritten <= 1
    /\ pc \in {"main", "open", "ioctl", "enable82", "enable83", "enablewait", "preamble"}
           => out = << >>
    /\ out # << >> =>
           /\ PreamblesWritten = 1
           /\ SubSeq(out, 1, PreambleLen) = print_charts_preamble
           /\ \A i \in DOMAIN out :
                  (i <= PreambleLen) <=> (out[i].t \in {"CHART", "DIMENSION"})
    /\ FramesWritten = cycles + (IF FramePrinted THEN 1 ELSE 0)
    /\ Len(out) = (IF out = << >> THEN 0 ELSE PreambleLen) + FramesWritten * FrameLen

\* C1 witness: two cycles completed, two frames after the one preamble.
C1_TwoCyclesRun ==
    pc = "loop" /\ cycles = 2 /\ FramesWritten = 2 /\ PreamblesWritten = 1

\* C2: the end-of-cycle sleep is the interval less the processing time, and
\* 0 when the processing time exceeds the interval: never a wrapped value.
C2_SleepIsFloored ==
    pc = "sleep" =>
        LET processing == Sub64(endtimeus, starttimeus)
            interval   == U64(gUpdateEvery * UsecPerSec)
        IN  /\ Le64(sleepus, interval)
            /\ sleepus = IF Le64(processing, interval)
                         THEN Sub64(interval, processing)
                         ELSE Zero64

\* The microseconds on the BEGIN lines of frame f, Zero64 where omitted: the
\* set of the values its BEGIN lines carry.
BeginHints(f) ==
    {IF f[i].hasUs THEN f[i].us ELSE Zero64 : i \in {j \in DOMAIN f : f[j].t = "BEGIN"}}

\* C3, as claimed: every frame after the first whose two preceding cycle-end
\* timestamps exist carries the difference of those two timestamps, and the
\* first frame carries no elapsed time.
C3_HintIsEndToEndDelta ==
    FramePrinted =>
        /\ FramesWritten = 1 => BeginHints(Frame(1)) = {Zero64}
        /\ (pc = "end" /\ FramesWritten >= 3) =>
               BeginHints(Frame(FramesWritten)) = {Sub64(endtimeus, prevendtimeus)}

\* C3, amended: every frame after the first carries, on each of its BEGIN
\* lines, the cycle's start timestamp less the previous cycle's end timestamp
\* (nothing when that is 0 or the end timestamp reads 0); the first frame
\* carries nothing.  At pc = "end" endtimeus still is the previous cycle's.
C3_HintIsStartLessPreviousEnd ==
    pc = "end" =>
        LET f == Frame(FramesWritten)
            expected == IF FramesWritten = 1 \/ endtimeus = Zero64
                        THEN Zero64
                        ELSE Sub64(starttimeus, endtimeus)
        IN  \A i \in DOMAIN f :
                f[i].t = "BEGIN" =>
                    /\ f[i].hasUs <=> expected # Zero64
                    /\ f[i].hasUs => f[i].us = expected

\* C3 witness: a third frame printed with a non-zero elapsed time that is not
\* the difference of the two preceding cycle-end timestamps.
C3_ThirdFrameHinted ==
    /\ pc = "end"
    /\ FramesWritten = 3
    /\ BeginHints(Frame(3)) = {Sub64(starttimeus, endtimeus)}
    /\ Sub64(starttimeus, endtimeus) # Zero64
    /\ Sub64(starttimeus, endtimeus) # Sub64(endtimeus, prevendtimeus)

\* The string the declared format of dimension d gives for a value given in
\* thousandths.
DeclaredString(d, milli) ==
    IF DimDef(d).DataType = "Float"
    THEN SprintfFloat(DimDef(d).DataFormat, milli)
    ELSE SprintfUint(DimDef(d).DataFormat, milli \div 1000)

\* C4: every valid quantity renders as the declared format of exactly the
\* value that was passed to its save_data_* call, for all 13 quantities.
C4_RenderIsDeclaredFormatOfSavedValue ==
    \A d \in Dimensions :
        IsValid(gIsValid, d) =>
            format_data_value(store, d) = DeclaredString(d, gData[d].milli)

\* C5: a cycle in which a bus transfer fails ends the process with a nonzero
\* code at once, having written no line of its frame; the output after the
\* preamble is whole frames only (per chart BEGIN, its SET lines, END; 8
\* charts and 13 SET lines per frame), and nothing runs after the exit.
C5_FailedCycleWritesNothing ==
    /\ (pc = "exited" /\ out # << >>) =>
           /\ exitCode # 0 /\ exitCode # -1
           /\ FramesWritten = cycles
           /\ ~ENABLED Next
    /\ pc \in {"gather", "charge", "battery", "acin", "vbus", "limits", "print"} =>
           FramesWritten = cycles
    /\ Len(out) > PreambleLen =>
           /\ (Len(out) - PreambleLen) % FrameLen = 0
           /\ \A i \in 1 .. (Len(out) - PreambleLen) :
                  out[PreambleLen + i].t = FrameKeywords[((i - 1) % FrameLen) + 1]

\* C5 witness: the second cycle failed on the bus after a battery block had
\* stored values; one complete frame stands on the output.
C5_SecondCycleFailed ==
    /\ pc = "exited"
    /\ cycles = 1
    /\ FramesWritten = 1
    /\ IsValid(gIsValid, batvoltage)
    /\ ~IsValid(gIsValid, vbuscurrentlimit)
    /\ Len(out) = PreambleLen + FrameLen

\* main got past its argument check.
Proceeded == pc # "main" /\ ~(pc = "exited" /\ gI2c = 0)

\* C6: the program proceeds to open the bus iff the argument is absent or an
\* integer in 1..360, and then the interval is the argument (1 if absent).
C6_ProceedsIffArgumentInRange ==
    pc # "main" =>
        /\ Proceeded <=>
               (cmdline.argc < 2 \/ (MinUpdateEvery <= cmdline.n /\ cmdline.n <= MaxUpdateEvery))
        /\ Proceeded => gUpdateEvery = (IF cmdline.argc < 2 THEN 1 ELSE cmdline.n)
        /\ ~Proceeded => exitCode = 1 /\ out = << >> /\ buswrites = << >>

\* The status bit that gates dimension d, read off register file reg.
GateOpen(d, reg) ==
    CASE d \in {batlevel, batcharge, batdischarge, batvoltage, vbusvoltage, vbuscurrent} ->
             (reg[1] \div 32) % 2 = 1
      [] d \in {acinvoltage, acincurrent} -> (reg[1] \div 128) % 2 = 1
      [] d \in {chargelimit, chargeterm} -> (reg[51] \div 128) % 2 = 1
      [] d = vbusvoltagelimit -> (reg[48] \div 64) % 2 = 1
      [] d = vbuscurrentlimit -> reg[48] % 4 # 3
      [] OTHER -> TRUE

\* C7: nothing carries over between cycles: once the decode has reset and
\* read its status registers only the temperature is stored, and the frame a
\* cycle prints is the one a decode from an empty store gives on the registers
\* of that cycle alone; a quantity whose gate is closed prints as "".
C7_NoCarryOver ==
    /\ pc = "charge" =>
           \A d \in Dimensions \ {internaltemp} :
               ~IsValid(gIsValid, d) /\ gData[d] = ZeroCell
    /\ FramePrinted =>
           LET f == Frame(FramesWritten)
               fresh == DecodeFrom(FreshStore, regfile)
           IN  \A d \in Dimensions :
                   LET txt == SetText(f, d)
                   IN  /\ txt = format_data_value(fresh, d)
                       /\ txt = EmptyString <=> ~GateOpen(d, regfile)

\* C7 witness: a quantity printed with a value in one frame and as "" in the
\* next.
C7_ValidThenAbsent ==
    /\ pc = "end"
    /\ FramesWritten >= 2
    /\ \E d \in Dimensions :
           /\ SetText(Frame(FramesWritten - 1), d) # EmptyString
           /\ SetText(Frame(FramesWritten), d) = EmptyString

\* C8: after a completed decode each quantity is valid iff its gate is open
\* in the registers read: bit 0x20 of 0x01 for the battery and VBUS
\* measurements, bit 0x80 of 0x01 for ACIN, bit 0x80 of 0x33 for the charge
\* limits, bit 0x40 of 0x30 for the VBUS voltage limit, low two bits of 0x30
\* other than 3 for the VBUS current limit; the temperature always.
C8_ValidIffGateOpen ==
    pc \in {"print", "end"} =>
        \A d \in Dimensions : IsValid(gIsValid, d) <=> GateOpen(d, regfile)

\* C8 witness: a decode with the battery bit set and the AC bit clear, charge
\* limits off and the reserved current-limit encoding.
C8_BatteryOnly ==
    /\ pc = "print"
    /\ IsValid(gIsValid, batlevel) /\ IsValid(gIsValid, vbusvoltage)
    /\ ~IsValid(gIsValid, acinvoltage) /\ ~IsValid(gIsValid, acincurrent)
    /\ ~IsValid(gIsValid, chargelimit)
    /\ ~IsValid(gIsValid, vbuscurrentlimit)
    /\ IsValid(gIsValid, internaltemp)

\* C9: when the bus cannot be opened, the device cannot be addressed or a
\* transfer of the enable sequence fails, the process exits with code 1 and
\* nothing has been written to the output.
C9_StartupFailureWritesNothing ==
    [][ /\ (pc = "open" /\ gI2c' < 0) => pc' = "exited"
        /\ (pc \in {"open", "ioctl", "enable82", "enable83"} /\ pc' = "exited")
               => (exitCode' = 1 /\ out' = << >>)
      ]_vars

\* C9 witness: the enable sequence wrote register 0x82, then failed on 0x83.
C9_EnableFailedAfterWrite ==
    /\ pc = "exited"
    /\ exitCode = 1
    /\ gI2c = 3
    /\ Len(buswrites) = 1
    /\ out = << >>

\* C10: with bit 0x80 of the charge-control byte c set, the charge limit is
\* (c mod 16) * 100 + 300 and the termination limit is a tenth of it, plus
\* half of that tenth iff bit 0x10 of c is set (0x8F: 1800 and 180; 0x9F:
\* 1800 and 270).
C10_ChargeLimits ==
    (pc \in {"battery", "acin", "vbus", "limits", "print", "end"}
        /\ (charge_ctl \div 128) % 2 = 1) =>
        LET limit == (charge_ctl % 16) * 100 + 300
            tenth == limit \div 10
            term  == tenth + (IF (charge_ctl \div 16) % 2 = 1 THEN tenth \div 2 ELSE 0)
        IN  /\ format_data_value(store, chargelimit) = [fmt |-> "%hu", n |-> limit]
            /\ format_data_value(store, chargeterm) = [fmt |-> "%hu", n |-> term]
            /\ charge_ctl = 143 => limit = 1800 /\ term = 180
            /\ charge_ctl = 159 => limit = 1800 /\ term = 270

\* C10 witness: charge control 0x9F decoded to 1800 and 270.
C10_Example9F ==
    /\ pc = "end"
    /\ charge_ctl = 159
    /\ format_data_value(store, chargelimit).n = 1800
    /\ format_data_value(store, chargeterm).n = 270

\* C11: for every byte of register 0x30 the bus current limit follows its low
\* two bits: 0 gives 900, 1 gives 500, 2 gives 100 and 3 leaves the sample
\* invalid; nothing else is ever stored, and the table is only ever indexed
\* at one of its three entries.
C11_CurrentLimitByField ==
    pc \in {"print", "end"} =>
        LET field == regfile[48] % 4
            text  == format_data_value(store, vbuscurrentlimit)
        IN  /\ field = 0 => text = [fmt |-> "%hu", n |-> 900]
            /\ field = 1 => text = [fmt |-> "%hu", n |-> 500]
            /\ field = 2 => text = [fmt |-> "%hu", n |-> 100]
            /\ field = 3 => text = EmptyString /\ ~IsValid(gIsValid, vbuscurrentlimit)
            /\ IsValid(gIsValid, vbuscurrentlimit) =>
                   /\ field + 1 \in DOMAIN targets
                   /\ Len(targets) = 3
                   /\ AsUint16(gData[vbuscurrentlimit]) \in {900, 500, 100}
            /\ ~IsValid(gIsValid, vbuscurrentlimit) => gData[vbuscurrentlimit] = ZeroCell

\* C11 witness: register 0x30 = 0x06 (field 2, bit 0x4 set) decoded to 100.
C11_Field2Gives100 ==
    /\ pc = "end"
    /\ regfile[48] = 6
    /\ format_data_value(store, vbuscurrentlimit) = [fmt |-> "%hu", n |-> 100]

\* C12: for every pair of bytes in the high and low register of a
\* two-register quantity the value reassembled is 16 * high + low mod 16: it
\* lies in 0 .. 4095, the upper nibble of the low byte has no influence, and
\* 0x12 with 0x3F gives 303.  The value is read off the temperature (value *
\* 0.18 - 228.46) and, once they are stored, off the battery charge current
\* (* 0.5), the battery voltage (* 1.1), the ACIN and VBUS voltages (* 1.7),
\* the ACIN current (* 0.625) and the VBUS current (* 0.375).
C12_Reassembly ==
    pc # "gather" =>
        LET high == regfile[94]
            low  == regfile[95]
            raw  == 16 * high + (low % 16)
            scaled(d, m) == IsValid(gIsValid, d) => gData[d] = [as |-> "asFloat", milli |-> raw * m]
        IN  /\ raw \in 0 .. 4095
            /\ IsValid(gIsValid, internaltemp)
            /\ gData[internaltemp] = [as |-> "asFloat", milli |-> raw * 180 - 228460]
            /\ scaled(batcharge, 500)
            /\ scaled(batvoltage, 1100)
            /\ scaled(acinvoltage, 1700)
            /\ scaled(acincurrent, 625)
            /\ scaled(vbusvoltage, 1700)
            /\ scaled(vbuscurrent, 375)
            /\ pc = "end" => \A d \in {batcharge, batvoltage, acinvoltage, acincurrent,
                                        vbusvoltage, vbuscurrent} : IsValid(gIsValid, d)
            /\ read_multi_value(regfile, 94, 95)
                   = read_multi_value([regfile EXCEPT ![95] = low % 16], 94, 95)
            /\ (high = 18 /\ low = 63) => read_multi_value(regfile, 94, 95) = 303

\* C12 witness: high 0x12 and low 0x3F decoded as 303, a temperature of
\* 303 * 0.18 - 228.46 = -173.92.
C12_Example12F ==
    /\ pc = "end"
    /\ regfile[94] = 18
    /\ regfile[95] = 63
    /\ gData[internaltemp].milli = -173920
    /\ gData[batvoltage].milli = 303 * 1100

\* C13: the BEGIN lines of a frame omit the elapsed time if and only if the
\* frame is the first one, whatever the two clock readings were: every later
\* frame carries it, also when the cycle starts at the very microsecond the
\* previous cycle ended.
C13_HintOmittedIffFirstFrame ==
    pc = "end" =>
        LET f == Frame(FramesWritten)
        IN  \A i \in DOMAIN f :
                f[i].t = "BEGIN" => (f[i].hasUs <=> FramesWritten > 1)

\* The keyword and name of every line of a frame as C14 lists them: per chart
\* in catalog order BEGIN, the SET lines of its quantities, END.
C14_FrameLines ==
    << << "BEGIN", "Chip.temps" >>, << "SET", "internaltemp" >>, << "END", "" >>,
       << "BEGIN", "Chip.batterylevel" >>, << "SET", "batlevel" >>, << "END", "" >>,
       << "BEGIN", "Chip.batterycurrent" >>, << "SET", "chargelimit" >>, << "SET", "chargeterm" >>, << "SET", "batcharge" >>, << "SET", "batdischarge" >>, << "END", "" >>,
       << "BEGIN", "Chip.batteryvoltage" >>, << "SET", "batvoltage" >>, << "END", "" >>,
       << "BEGIN", "Chip.acinvoltage" >>, << "SET", "acinvoltage" >>, << "END", "" >>,
       << "BEGIN", "Chip.acincurrent" >>, << "SET", "acincurrent" >>, << "END", "" >>,
       << "BEGIN", "Chip.vbusvoltage" >>, << "SET", "vbusvoltage" >>, << "SET", "vbusvoltagelimit" >>, << "END", "" >>,
       << "BEGIN", "Chip.vbuscurrent" >>, << "SET", "vbuscurrent" >>, << "SET", "vbuscurrentlimit" >>, << "END", "" >> >>

\* The keyword and name of every line of the preamble in the same order.
C14_PreambleLines ==
    << << "CHART", "Chip.temps" >>, << "DIMENSION", "internaltemp" >>,
       << "CHART", "Chip.batterylevel" >>, << "DIMENSION", "batlevel" >>,
       << "CHART", "Chip.batterycurrent" >>, << "DIMENSION", "chargelimit" >>, << "DIMENSION", "chargeterm" >>, << "DIMENSION", "batcharge" >>, << "DIMENSION", "batdischarge" >>,
       << "CHART", "Chip.batteryvoltage" >>, << "DIMENSION", "batvoltage" >>,
       << "CHART", "Chip.acinvoltage" >>, << "DIMENSION", "acinvoltage" >>,
       << "CHART", "Chip.acincurrent" >>, << "DIMENSION", "acincurrent" >>,
       << "CHART", "Chip.vbusvoltage" >>, << "DIMENSION", "vbusvoltage" >>, << "DIMENSION", "vbusvoltagelimit" >>,
       << "CHART", "Chip.vbuscurrent" >>, << "DIMENSION", "vbuscurrent" >>, << "DIMENSION", "vbuscurrentlimit" >> >>

\* C14: every frame is one BEGIN ... END block per chart in catalog order
\* (Chip.temps, Chip.batterylevel, Chip.batterycurrent, Chip.batteryvoltage,
\* Chip.acinvoltage, Chip.acincurrent, Chip.vbusvoltage, Chip.vbuscurrent),
\* each block BEGIN, one SET per quantity of the chart in the chart's order,
\* END, blocks neither nested nor interleaved; the preamble names charts and
\* dimensions in the same order; each of the 13 quantities has exactly one
\* SET line in every frame, valid or not.
C14_OneBlockPerChartInOrder ==
    out # << >> =>
        /\ \A i \in 1 .. PreambleLen :
               << out[i].t, out[i].id >> = C14_PreambleLines[i]
        /\ (Len(out) - PreambleLen) % FrameLen = 0
        /\ Len(out) > PreambleLen =>
               LET f == SubSeq(out, Len(out) - FrameLen + 1, Len(out))
               IN  /\ \A i \in 1 .. FrameLen :
                          << f[i].t, f[i].id >> = C14_FrameLines[i]
                   /\ \A d \in Dimensions :
                          Cardinality({i \in DOMAIN f :
                              f[i].t = "SET" /\ f[i].id = DimDef(d).Name}) = 1
                   /\ \A d \in Dimensions :
                          pc = "end" => (SetText(f, d) = EmptyString <=> ~IsValid(gIsValid, d))

\* C14 witness: a second frame printed with the battery level not valid and
\* the temperature valid, each on its one SET line.
C14_SecondFrameWithInvalid ==
    /\ pc = "end"
    /\ FramesWritten = 2
    /\ ~IsValid(gIsValid, batlevel)
    /\ SetText(Frame(2), batlevel) = EmptyString
    /\ SetText(Frame(2), internaltemp) # EmptyString

\* C15: in the enable sequence, run once before the first cycle, register
\* 0x82 is written iff the byte read lacks a bit of 0xCC (bits 2, 3, 6, 7) and
\* register 0x83 iff the byte read lacks bit 0x80; the byte written is the
\* byte read with those bits set and every other bit as read; the 40 ms pause
\* is taken iff a register was written, and it lies before the preamble and
\* before every decode read.
C15_EnableSequence ==
    [][ /\ pc = "enable82" /\ pc' = "enable83" =>
            LET read == regfile[130]
                lacks == (read \div 4) % 4 # 3 \/ (read \div 64) % 4 # 3
                written == 204 + (read % 4) + ((read \div 16) % 4) * 16
            IN  /\ buswrites' = IF lacks THEN Append(buswrites, << 130, written >>)
                                 ELSE buswrites
                /\ regfile' = [regfile EXCEPT ![130] = IF lacks THEN written ELSE read]
        /\ pc = "enable83" /\ pc' = "enablewait" =>
            LET read == regfile[131]
                lacks == read < 128
                written == 128 + read
            IN  /\ buswrites' = IF lacks THEN Append(buswrites, << 131, written >>)
                                 ELSE buswrites
                /\ regfile' = [regfile EXCEPT ![131] = IF lacks THEN written ELSE read]
        /\ pc = "enablewait" /\ pc' # "enablewait" =>
            /\ out = << >>
            /\ cycles = 0
            /\ waited' <=> buswrites # << >>
            /\ now' = IF buswrites # << >> THEN Add64(now, U64(40000)) ELSE now
        /\ pc \notin {"enable82", "enable83"} => buswrites' = buswrites
        /\ pc # "enablewait" => waited' = waited
        /\ (out' # out \/ pc' \in {"gather", "charge"}) =>
            (waited <=> buswrites # << >>)
      ]_vars

\* C15 witness: register 0x82 read 0x4B and was written as 0xCF, register 0x83
\* read 0x80 and was not written; the pause was taken, the preamble written
\* and the first decode reads done.
C15_Wrote82Only ==
    /\ pc = "charge"
    /\ buswrites = << << 130, 207 >> >>
    /\ regfile[131] = 128
    /\ waited
    /\ out = print_charts_preamble
    /\ starttimeus \in {U64(40000), U64(5040000)}

\* C16: once the preamble is written the loop has no exit of its own: the
\* process ends only by a failing bus transfer, every cycle begun writes its
\* frame unless the bus fails, and after every frame, the sleep returning,
\* the next cycle begins (cycles are counted up to MaxCycles).
C16_FramesForever ==
    /\ [][(out # << >> /\ pc' = "exited") => (BusStep /\ exitCode' = 1)]_vars
    /\ (pc = "loop" /\ cycles < MaxCycles) ~> (pc \in {"end", "exited"})
    /\ (pc = "end") ~> (pc = "loop")

\* C16 witness: the third cycle begun after two complete frames and two
\* sleeps that returned.
C16_ThirdCycleBegun ==
    /\ pc = "gather"
    /\ cycles = 2
    /\ FramesWritten = 2
    /\ Len(out) = PreambleLen + 2 * FrameLen

====
